---- MODULE Spec2Model ----
(***************************************************************************)
(* Static asset handler of static/assets.go: NewAssetHandler,              *)
(* mwSetCacheControl and fileHandler2, together with the two asset         *)
(* sources it is bound to (embed.FS under the prefix "build", os.DirFS     *)
(* with the empty prefix).                                                 *)
(*                                                                         *)
(* A path string is modelled by its "/"-split sequence of elements:        *)
(*   ""        <<>>                  "a/b"   <<"a", "b">>                  *)
(*   "/"       <<"", "">>            "/a"    <<"", "a">>                   *)
(*   "."       <<".">>               "a//b"  <<"a", "", "b">>              *)
(* so that filepath.Clean, filepath.Join, strings.TrimPrefix and           *)
(* fs.ValidPath are computed element by element as the Go library does.    *)
(* Requests are plain GETs (no conditional or range headers), one handler  *)
(* invocation at a time; the handler's position is h.pc.                   *)
(***************************************************************************)
EXTENDS Integers, Sequences, FiniteSets, TLC

VARIABLES assetsPath, layout, denied, h, prev, openFiles

vars == <<assetsPath, layout, denied, h, prev, openFiles>>

\* ------------------------------------------------------------------ bounds

\* Longest request path, in elements after the leading "/".
MaxSegs == 3

\* Descriptors the process may hold open at once.
MaxOpenFiles == 2

\* ------------------------------------------------------- program constants

defaultFile == <<"index.html">>

embedPrefix == <<"build">>

StatusNoContent == 204

StatusForbidden == 403

StatusInternalServerError == 500

CacheControlValue == "public, max-age=3600"

\* platform.GetBuildInfo().Commit: an opaque string fixed for the process.
BuildCommit == "c0ffee"

\* ------------------------------------------------------------- path strings

\* Elements a request path is built from.
Segs == {"", ".", "..", "index.html", "app.js", "build"}

RECURSIVE SeqsOfLen(_)
SeqsOfLen(n) ==
  IF n = 0 THEN {<<>>}
  ELSE {Append(s, e) : s \in SeqsOfLen(n - 1), e \in Segs}

\* r.URL.Path values: "/" followed by 1..MaxSegs elements ("/" itself is <<"", "">>).
URLPaths == UNION {{<<"">> \o s : s \in SeqsOfLen(n)} : n \in 1..MaxSegs}

\* The string starts with "/".
IsRooted(s) == Len(s) >= 2 /\ s[1] = ""

\* strings.TrimPrefix(s, "/")
TrimPrefix(s) ==
  IF IsRooted(s)
  THEN (IF Tail(s) = <<"">> THEN <<>> ELSE Tail(s))
  ELSE s

RECURSIVE CleanElems(_, _, _, _)
CleanElems(s, k, out, rooted) ==
  IF k > Len(s) THEN out
  ELSE LET e == s[k] IN
    IF e = "" \/ e = "."
    THEN CleanElems(s, k + 1, out, rooted)
    ELSE IF e = ".."
    THEN IF Len(out) > 0 /\ out[Len(out)] # ".."
         THEN CleanElems(s, k + 1, SubSeq(out, 1, Len(out) - 1), rooted)
         ELSE IF rooted
         THEN CleanElems(s, k + 1, out, rooted)
         ELSE CleanElems(s, k + 1, Append(out, ".."), rooted)
    ELSE CleanElems(s, k + 1, Append(out, e), rooted)

\* filepath.Clean
Clean(s) ==
  LET rooted == IsRooted(s)
      out == CleanElems(s, 1, <<>>, rooted)
  IN IF rooted
     THEN (IF out = <<>> THEN <<"", "">> ELSE <<"">> \o out)
     ELSE (IF out = <<>> THEN <<".">> ELSE out)

\* filepath.Join(a, b): empty elements are ignored, the rest joined by "/" and cleaned.
Join(a, b) ==
  IF a = <<>> /\ b = <<>> THEN <<>>
  ELSE IF a = <<>> THEN Clean(b)
  ELSE IF b = <<>> THEN Clean(a)
  ELSE Clean(a \o b)

\* fs.ValidPath, which embed.FS and os.DirFS apply to the name given to Open.
ValidPath(name) ==
  \/ name = <<".">>
  \/ /\ Len(name) >= 1
     /\ \A k \in 1..Len(name) : name[k] \notin {"", ".", ".."}

\* FileInfo.Name(): the last element.
Base(path) == IF path = <<>> THEN "." ELSE path[Len(path)]

IsPrefix(p, q) == Len(p) <= Len(q) /\ SubSeq(q, 1, Len(p)) = p

\* -------------------------------------------------------------- asset source

\* Files a bundle or directory may hold, relative to its serving root.
Candidates == {<<"index.html">>, <<"app.js">>, <<"build", "index.html">>}

\* Content of the file at a relative path.
Content(rel) ==
  IF rel = <<"index.html">> THEN "A"
  ELSE IF rel = <<"app.js">> THEN "BB"
  ELSE "XXX"

\* The prefix fileHandler2 is given for a source.
Dir(fs) == IF fs.mode = "embed" THEN embedPrefix ELSE <<>>

\* Paths of the regular files of the source, from the root of the fs.FS.
Files(fs) == {Dir(fs) \o p : p \in fs.layout}

\* Directories of the source: the root, the embedded directory, every parent of a file.
Dirs(fs) ==
  {<<>>} \cup (IF fs.mode = "embed" THEN {embedPrefix} ELSE {})
         \cup UNION {{SubSeq(p, 1, n) : n \in 0..(Len(p) - 1)} : p \in Files(fs)}

\* The entry a valid name denotes ("." is the root).
EntryOf(name) == IF name = <<".">> THEN <<>> ELSE name

NoFile ==
  [path |-> <<>>, kind |-> "none", seekable |-> FALSE, data |-> "", size |-> 0, closes |-> 0]

\* The file of the source at path p, as embed's openFile or an *os.File.
FileHandle(fs, p) ==
  LET data == Content(SubSeq(p, Len(Dir(fs)) + 1, Len(p)))
  IN [path |-> p, kind |-> "file", seekable |-> TRUE,
      data |-> data, size |-> Len(data), closes |-> 0]

\* embed's openDir has no Seek method; an *os.File opened on a directory has one.
DirHandle(fs, p) ==
  [path |-> p, kind |-> "dir", seekable |-> (fs.mode = "dirfs"),
   data |-> "", size |-> 0, closes |-> 0]

Failed(e) == [err |-> e, f |-> NoFile]

\* embed.FS.Open: an invalid or unknown name is fs.ErrNotExist.
EmbedOpen(fs, name) ==
  IF ~ValidPath(name) THEN Failed("ErrNotExist")
  ELSE IF EntryOf(name) \in Files(fs) THEN [err |-> "", f |-> FileHandle(fs, name)]
  ELSE IF EntryOf(name) \in Dirs(fs) THEN [err |-> "", f |-> DirHandle(fs, EntryOf(name))]
  ELSE Failed("ErrNotExist")

\* os.DirFS(...).Open: an invalid name is ErrInvalid, the rest is open(2).
DirFSOpen(fs, name) ==
  IF ~ValidPath(name) THEN Failed("ErrInvalid")
  ELSE IF EntryOf(name) \in fs.denied THEN Failed("ErrPermission")
  ELSE IF EntryOf(name) \in Files(fs) THEN [err |-> "", f |-> FileHandle(fs, name)]
  ELSE IF EntryOf(name) \in Dirs(fs) THEN [err |-> "", f |-> DirHandle(fs, EntryOf(name))]
  ELSE IF \E n \in 1..(Len(name) - 1) : SubSeq(name, 1, n) \in Files(fs)
       THEN Failed("ENOTDIR")
  ELSE Failed("ErrNotExist")

\* fileOpener.Open(name)
Open(fs, name) == IF fs.mode = "embed" THEN EmbedOpen(fs, name) ELSE DirFSOpen(fs, name)

\* os.IsNotExist
IsNotExist(e) == e = "ErrNotExist"

\* ------------------------------------------------------------ response writer

NoResponse ==
  [cache |-> <<>>, ctype |-> "", etag |-> "", status |-> 0, body |-> "", streamed |-> FALSE]

\* net/http drops the body of a 1xx, 204 or 304 response.
bodyAllowedForStatus(code) == ~(code < 200 \/ code = 204 \/ code = 304)

\* http.Error(w, msg, code)
HttpError(w, msg, code) ==
  [w EXCEPT !.ctype = "text/plain; charset=utf-8",
            !.status = code,
            !.body = IF bodyAllowedForStatus(code) THEN msg ELSE ""]

\* mime.TypeByExtension on the name given to ServeContent, else content sniffing.
TypeByName(name) ==
  IF Base(name) = "index.html" THEN "text/html; charset=utf-8"
  ELSE IF Base(name) = "app.js" THEN "text/javascript; charset=utf-8"
  ELSE "text/plain; charset=utf-8"

\* ------------------------------------------------------------------ handler

NoInfo == [name |-> "", size |-> 0]

\* The handler's frame before a request: nothing opened, nothing written.
Idle ==
  [pc |-> "idle", path |-> <<>>, name |-> <<>>, f |-> NoFile, i |-> NoInfo,
   err |-> "", statFault |-> FALSE, panicked |-> FALSE, w |-> NoResponse]

\* A middleware that forgets to add the header.
mwSetCacheControl_noHeader(p) == [Idle EXCEPT !.pc = "clean", !.path = p]

\* mwSetCacheControl: add the header, then run the inner handler.
mwSetCacheControl(p) ==
  [Idle EXCEPT !.pc = "clean", !.path = p,
               !.w.cache = Append(@, CacheControlValue)]

\* Lines 60-68: normalise the request path; the root is replaced by the index file.
CleanName(fr, dir) ==
  LET name == Clean(TrimPrefix(fr.path))
  IN IF name = <<".">>
     THEN [fr EXCEPT !.name = Join(dir, defaultFile), !.w.ctype = "text/html",
                     !.pc = "open"]
     ELSE [fr EXCEPT !.name = name, !.pc = "open"]

\* Lines 72-82: open the requested name; only a not-exist error leads to the index file.
OpenRequested(fr, fs) ==
  LET r == Open(fs, Join(Dir(fs), fr.name))
  IN IF r.err = ""
     THEN [fr EXCEPT !.f = r.f, !.err = "", !.pc = "stat"]
     ELSE IF IsNotExist(r.err)
     THEN [fr EXCEPT !.err = r.err, !.pc = "default"]
     ELSE [fr EXCEPT !.err = r.err, !.w = HttpError(@, r.err, StatusNoContent),
                     !.pc = "done"]

\* The index file is missing and the handler answers 404 with the error text.
OpenDefault_notFound(fr, fs) ==
  LET r == Open(fs, Join(Dir(fs), defaultFile))
  IN IF r.err # ""
     THEN [fr EXCEPT !.err = r.err, !.w = HttpError(@, r.err, 404), !.pc = "done"]
     ELSE [fr EXCEPT !.f = r.f, !.err = "", !.w.ctype = "text/html", !.pc = "stat"]

\* Lines 75-86: open the index file; its content type is forced.
OpenDefault(fr, fs) ==
  LET r == Open(fs, Join(Dir(fs), defaultFile))
  IN IF r.err # ""
     THEN [fr EXCEPT !.err = r.err, !.w = HttpError(@, r.err, StatusNoContent),
                     !.pc = "done"]
     ELSE [fr EXCEPT !.f = r.f, !.err = "", !.w.ctype = "text/html", !.pc = "stat"]

\* The close is not deferred: the early return on a Stat error skips it.
Stat_noDefer(fr, fails) ==
  IF fails
  THEN [fr EXCEPT !.err = "stat failed", !.statFault = TRUE,
                  !.w = HttpError(@, "stat failed", StatusForbidden),
                  !.pc = "done"]
  ELSE [fr EXCEPT !.i = [name |-> Base(fr.f.path), size |-> fr.f.size],
                  !.err = "", !.pc = "seek"]

\* Lines 87-93: the close is deferred, then f.Stat().
Stat(fr, fails) ==
  IF fails
  THEN [fr EXCEPT !.err = "stat failed", !.statFault = TRUE,
                  !.w = HttpError(@, "stat failed", StatusForbidden),
                  !.pc = "deferred"]
  ELSE [fr EXCEPT !.i = [name |-> Base(fr.f.path), size |-> fr.f.size],
                  !.err = "", !.pc = "seek"]

\* A validator that leaves the size out.
ETag_noSize(name, size, commit) == "W/\"" \o name \o "-" \o commit \o "\""

\* fmt.Sprintf(`W/"%s-%d-%s"`, name, size, commit)
ETag(name, size, commit) ==
  "W/\"" \o name \o "-" \o ToString(size) \o "-" \o commit \o "\""

\* Lines 95-107: f.(io.ReadSeeker). In the failure branch err.Error() is evaluated
\* with the err of the successful Stat, a nil interface: the call panics before
\* http.Error runs, and the deferred close runs while the panic unwinds.
SeekCheck(fr) ==
  IF ~fr.f.seekable
  THEN IF fr.err = ""
       THEN [fr EXCEPT !.panicked = TRUE, !.pc = "deferred"]
       ELSE [fr EXCEPT !.w = HttpError(@, fr.err, StatusInternalServerError),
                       !.pc = "deferred"]
  ELSE [fr EXCEPT !.w.etag = ETag(fr.i.name, fr.i.size, BuildCommit), !.pc = "serve"]

\* Line 113: http.ServeContent for a plain GET. seekOk is whether the content's
\* Seek calls succeed (they may fail on a directory's *os.File).
ServeContent(fr, seekOk) ==
  IF ~seekOk
  THEN [fr EXCEPT !.w = HttpError(@, "seeker can't seek", StatusInternalServerError),
                  !.pc = "deferred"]
  ELSE [fr EXCEPT !.w.ctype = IF @ = "" THEN TypeByName(fr.name) ELSE @,
                  !.w.status = 200,
                  !.w.body = fr.f.data,
                  !.w.streamed = TRUE,
                  !.pc = "deferred"]

\* Line 87: the deferred f.Close().
Close(fr) == [fr EXCEPT !.f.closes = @ + 1, !.pc = "done"]

\* f.Stat() cannot fail on an embedded file; on an *os.File it may.
StatFaults(fs) == IF fs.mode = "dirfs" THEN BOOLEAN ELSE {FALSE}

\* Seek succeeds on a regular file; on a directory it depends on the file system.
SeekOutcomes(fr) == IF fr.f.kind = "dir" THEN BOOLEAN ELSE {TRUE}

\* One step of the handler, the faults fixed by env.
Step(fr, fs, env) ==
  CASE fr.pc = "clean" -> CleanName(fr, Dir(fs))
    [] fr.pc = "open" -> OpenRequested(fr, fs)
    [] fr.pc = "default" -> OpenDefault(fr, fs)
    [] fr.pc = "stat" -> Stat(fr, env.statFails)
    [] fr.pc = "seek" -> SeekCheck(fr)
    [] fr.pc = "serve" -> ServeContent(fr, env.seekOk)
    [] fr.pc = "deferred" -> Close(fr)
    [] OTHER -> fr

RECURSIVE Run(_, _, _)
Run(fr, fs, env) == IF fr.pc = "done" THEN fr ELSE Run(Step(fr, fs, env), fs, env)

\* The handler NewAssetHandler returns, run to completion on one request.
ServeHTTP(fs, p, env) == Run(mwSetCacheControl(p), fs, env)

\* ------------------------------------------------------------ state machine

\* NewAssetHandler: a non-empty path serves os.DirFS(path), the empty one the bundle.
Mode(path) == IF path # "" THEN "dirfs" ELSE "embed"

FS == [mode |-> Mode(assetsPath), layout |-> layout, denied |-> denied]

NoServed == [name |-> "", size |-> 0, etag |-> ""]

Init ==
  /\ assetsPath \in {"", "/ui"}
  /\ layout \in SUBSET Candidates
  /\ denied \in (IF assetsPath = "" THEN {{}} ELSE {{}} \cup {{p} : p \in layout})
  /\ h = Idle
  /\ prev = NoServed
  /\ openFiles = 0

Request ==
  /\ h.pc = "idle"
  /\ openFiles < MaxOpenFiles
  /\ \E p \in URLPaths : h' = mwSetCacheControl(p)
  /\ UNCHANGED <<assetsPath, layout, denied, prev, openFiles>>

DoCleanName ==
  /\ h.pc = "clean"
  /\ h' = CleanName(h, Dir(FS))
  /\ UNCHANGED <<assetsPath, layout, denied, prev, openFiles>>

Opened(fr) == IF fr.f.kind # "none" THEN 1 ELSE 0

DoOpenRequested ==
  /\ h.pc = "open"
  /\ h' = OpenRequested(h, FS)
  /\ openFiles' = openFiles + Opened(h')
  /\ UNCHANGED <<assetsPath, layout, denied, prev>>

DoOpenDefault ==
  /\ h.pc = "default"
  /\ h' = OpenDefault(h, FS)
  /\ openFiles' = openFiles + Opened(h')
  /\ UNCHANGED <<assetsPath, layout, denied, prev>>

DoStat ==
  /\ h.pc = "stat"
  /\ \E fails \in StatFaults(FS) : h' = Stat(h, fails)
  /\ UNCHANGED <<assetsPath, layout, denied, prev, openFiles>>

DoSeekCheck ==
  /\ h.pc = "seek"
  /\ h' = SeekCheck(h)
  /\ UNCHANGED <<assetsPath, layout, denied, prev, openFiles>>

DoServeContent ==
  /\ h.pc = "serve"
  /\ \E seekOk \in SeekOutcomes(h) : h' = ServeContent(h, seekOk)
  /\ UNCHANGED <<assetsPath, layout, denied, prev, openFiles>>

DoClose ==
  /\ h.pc = "deferred"
  /\ h' = Close(h)
  /\ openFiles' = openFiles - 1
  /\ UNCHANGED <<assetsPath, layout, denied, prev>>

\* The handler returns; the validator it sent is remembered for the next request.
Return ==
  /\ h.pc = "done"
  /\ h' = Idle
  /\ prev' = IF h.w.etag # ""
             THEN [name |-> h.i.name, size |-> h.i.size, etag |-> h.w.etag]
             ELSE prev
  /\ UNCHANGED <<assetsPath, layout, denied, openFiles>>

Next ==
  \/ Request
  \/ DoCleanName
  \/ DoOpenRequested
  \/ DoOpenDefault
  \/ DoStat
  \/ DoSeekCheck
  \/ DoServeContent
  \/ DoClose
  \/ Return

Spec == Init /\ [][Next]_vars

TypeOK ==
  /\ h.pc \in {"idle", "clean", "open", "default", "stat", "seek", "serve", "deferred", "done"}
  /\ openFiles \in 0..MaxOpenFiles
  /\ denied \subseteq layout

\* ---------------------------------------------------------------- properties

\* The name fileHandler2 hands to the first Open.
Target == Join(Dir(FS), h.name)

\* The name of the fallback document, prefix/index.html.
FallbackName == Join(Dir(FS), defaultFile)

\* The name denotes a file or a directory of the source.
Exists(fs, name) == ValidPath(name) /\ EntryOf(name) \in (Files(fs) \cup Dirs(fs))

\* The fallback document is a file of the source and opens.
FallbackOpens == LET r == Open(FS, FallbackName) IN r.err = "" /\ r.f.kind = "file"

\* The same layout served by the other kind of source, free of faults.
Twin ==
  [mode |-> IF FS.mode = "embed" THEN "dirfs" ELSE "embed", layout |-> layout,
   denied |-> {}]

NoFault == [statFails |-> FALSE, seekOk |-> TRUE]

Outcome(fr) == <<fr.w.status, fr.w.body, fr.w.ctype>>

\* The step-by-step handler and ServeHTTP compute the same frame.
StepwiseMatchesServeHTTP ==
  h.pc = "done" =>
    h = ServeHTTP(FS, h.path,
                  [statFails |-> h.statFault,
                   seekOk |-> ~(h.w.body = "seeker can't seek")])

\* C1: a request that matches no entry of the source is answered, when
\* prefix/index.html exists, with that document's content and Content-Type
\* text/html, for every such path.
C1_UnmatchedGetsFallback ==
  (h.pc = "done" /\ ~Exists(FS, Target) /\ FallbackOpens /\ ~h.statFault) =>
    /\ h.w.status = 200
    /\ h.w.body = Content(defaultFile)
    /\ h.w.ctype = "text/html"

\* C2: a file that opens and stats but cannot seek is answered with status 500
\* and nothing is streamed.
C2_NonSeekableIs500 ==
  (h.pc = "done" /\ h.f.kind # "none" /\ ~h.statFault /\ ~h.f.seekable) =>
    /\ h.w.status = StatusInternalServerError
    /\ ~h.w.streamed

\* C3: a request for "/" returns prefix/index.html with Content-Type text/html,
\* whatever else the source holds.
C3_RootServesFallback ==
  (h.pc = "done" /\ h.path = <<"", "">> /\ FallbackOpens /\ ~h.statFault) =>
    /\ h.w.status = 200
    /\ h.f.path = FallbackName
    /\ h.w.body = Content(defaultFile)
    /\ h.w.ctype = "text/html"

\* C4: every handle the handler opened is closed exactly once by the time it
\* returns, on every exit path, and no request leaves a handle open.
C4_HandlesClosed ==
  /\ h.f.closes <= 1
  /\ openFiles = (IF h.f.kind # "none" /\ h.f.closes = 0 THEN 1 ELSE 0)
  /\ (h.pc \in {"done", "idle"} => openFiles = 0)
  /\ (h.pc = "done" /\ h.f.kind # "none" => h.f.closes = 1)

\* A request that ended on a Stat failure with its handle closed, after an
\* earlier request streamed a file.
C4_Witness ==
  h.pc = "done" /\ h.statFault /\ h.f.kind = "file" /\ h.f.closes = 1 /\ prev.etag # ""

\* C5: whatever the request path, no entry outside prefix/ is opened.
C5_NoOpenOutsidePrefix ==
  h.f.kind # "none" => IsPrefix(Dir(FS), h.f.path)

C7_ETag ==
  /\ h.pc = "serve" => h.w.etag # "" /\ ~h.w.streamed
  /\ h.w.streamed =>
       h.w.etag = "W/\"" \o Base(h.f.path) \o "-" \o ToString(h.f.size)
                    \o "-" \o BuildCommit \o "\""
  /\ (h.w.etag # "" /\ prev.etag # "") =>
       ((h.i.name = prev.name /\ h.i.size = prev.size) <=> h.w.etag = prev.etag)

\* Two responses for files of the same name and different sizes.
C7_Witness ==
  /\ h.pc = "done" /\ h.w.streamed /\ h.f.kind = "file"
  /\ prev.etag # "" /\ prev.name = h.i.name /\ prev.size # h.i.size

\* C8: for the same layout the embedded bundle and the external directory give
\* the same status, body and Content-Type for every request path.
C8_SourcesAgree ==
  (h.pc = "done" /\ denied = {} /\ ~h.statFault) =>
    Outcome(h) = Outcome(ServeHTTP(Twin, h.path, NoFault))

\* C9: from the moment the inner handler starts, the response carries exactly
\* one Cache-Control header, public, max-age=3600, whatever the outcome.
C9_CacheControl ==
  h.pc # "idle" => h.w.cache = <<"public, max-age=3600">>

\* A request that ended 403 and still carries the header.
C9_Witness ==
  h.pc = "done" /\ h.w.status = StatusForbidden /\ h.w.cache # <<>>

\* C10: when prefix/index.html exists and opens, no request is answered 204.
C10_No204WithFallback ==
  (h.pc = "done" /\ FallbackOpens) => h.w.status # StatusNoContent

====
